---- MODULE Spec2Model ----
(***************************************************************************)
(* monke: a command-line expense tracker.  Every invocation of the binary  *)
(* is one process: rootCmd opens the SQLite file (initDB), runs one of the *)
(* commands add, ls, clear, and exits.  The state that survives between    *)
(* invocations is the table "expenses" and the AUTOINCREMENT counter that  *)
(* SQLite keeps for it in sqlite_sequence.  One action models one          *)
(* invocation; what the invocation printed and how it ended is kept in     *)
(* cmd, args, exit, stdout, stderr and out.                                *)
(*                                                                         *)
(* Amounts are float64 in the program.  Here they are integers (a number   *)
(* of currency units) and every quotient is kept exact, as numerator and   *)
(* denominator; the rounding error of float64 arithmetic, NaN and the      *)
(* infinities are not modelled.                                            *)
(***************************************************************************)
EXTENDS Integers, Sequences, FiniteSets, TLC

VARIABLES
    expenses,         \* the rows of table expenses, in rowid order
    sqlite_sequence,  \* the largest rowid ever given out; 0: no row for the table
    cmd,              \* the command of the last invocation ("none" before the first)
    args,             \* its flags (add), its stdin (clear), the calendar day (ls)
    exit,             \* "ok", "fatal" (log.Fatal: os.Exit(1)) or "panic"
    stdout,           \* the line the command printed on its way out (fmt.Println)
    stderr,           \* the line it logged (log.Printf, log.Fatal), "" when none
    out,              \* what ls computed and printed
    clearedRows,      \* history: the number of rows deleted by the clear that emptied the
                      \* table, -1 once an add has stored a row since (and at the start)
    afterClear        \* history: the value of clearedRows when the last invocation started

vars == <<expenses, sqlite_sequence, cmd, args, exit, stdout, stderr, out, clearedRows, afterClear>>

--------------------------------------------------------------------------
(* Bounds of the model *)

\* The table holds at most this many rows: add is not taken beyond it.
MaxRecords == 2

\* Rowids stay at or below this (they grow without bound when the sequence
\* reset of clear keeps failing).
MaxRowid == 4

--------------------------------------------------------------------------
(* Helpers on sequences and sets *)

Range(s) == {s[i] : i \in 1..Len(s)}

RECURSIVE SumSeq(_)
SumSeq(s) == IF s = <<>> THEN 0 ELSE s[1] + SumSeq(Tail(s))

Max2(a, b) == IF a >= b THEN a ELSE b

\* Go's builtin min on ints.
min(a, b) == IF a <= b THEN a ELSE b

--------------------------------------------------------------------------
(* The store: schema and AUTOINCREMENT *)

\* type Expense / the columns of CREATE TABLE expenses.
Expense(id, title, amount, day, category) ==
    [id |-> id, title |-> title, amount |-> amount, day |-> day, category |-> category]

RECURSIVE MaxRowidOf(_)
MaxRowidOf(table) ==
    IF table = <<>> THEN 0 ELSE Max2(table[1].id, MaxRowidOf(Tail(table)))

\* Faulty variant, to show what depends on the definition below: the step
\* past the largest rowid is left out.
NextRowidNoStep(table, seq) == Max2(MaxRowidOf(table), seq)

\* "id" INTEGER NOT NULL PRIMARY KEY AUTOINCREMENT: the new rowid is one more
\* than the larger of the largest rowid in the table and the value SQLite
\* remembers in sqlite_sequence (none remembered: 0).
NextRowid(table, seq) == Max2(MaxRowidOf(table), seq) + 1

\* DELETE FROM sqlite_sequence WHERE name='expenses': SQLite forgets the
\* largest rowid it gave out.
\* Faulty variant, to show what depends on the definition below: the counter is kept.
ResetSequenceKept(seq) == seq
ResetSequence(seq) == 0

--------------------------------------------------------------------------
(* add *)

NoArgs == [none |-> TRUE]
NoOut == [printed |-> FALSE]

\* The checks of addCmd before it touches the store.
\* Faulty variant, to show what depends on the definition below: day 0 passes.
AddRejectsDayLoose(title, day) == title = "" \/ day < 0 \/ day > 28
AddRejects(title, day) == title = "" \/ day < 1 \/ day > 28

\* One invocation of "monke add -t title -a amount -d day [-c category]".
\* prepareErr / execErr: db.Prepare / statement.Exec returns an error.
Add(title, amount, day, category, prepareErr, execErr) ==
    /\ cmd' = "add"
    /\ args' = [title |-> title, amount |-> amount, day |-> day, category |-> category]
    /\ out' = NoOut
    /\ afterClear' = clearedRows
    /\ IF AddRejects(title, day) \/ prepareErr \/ execErr
       THEN /\ exit' = "fatal"
            /\ stdout' = ""
            /\ stderr' = IF title = "" THEN "Error: title flag is required."
                         ELSE IF day < 1 \/ day > 28 THEN "Error: Invalid day"
                         ELSE IF prepareErr THEN "Error preparing insert statement"
                         ELSE "Error executing insert statement"
            /\ UNCHANGED <<expenses, sqlite_sequence, clearedRows>>
       ELSE /\ Len(expenses) < MaxRecords
            /\ NextRowid(expenses, sqlite_sequence) <= MaxRowid
            /\ expenses' = Append(expenses,
                   Expense(NextRowid(expenses, sqlite_sequence), title, amount, day, category))
            /\ sqlite_sequence' = NextRowid(expenses, sqlite_sequence)
            /\ exit' = "ok"
            /\ stdout' = ""
            /\ stderr' = ""
            /\ clearedRows' = -1

--------------------------------------------------------------------------
(* clear *)

\* A line of input is a sequence of characters.
Newline == "\n"
WhiteSpace == {" ", "\t", "\r", Newline}

\* bufio.Reader.ReadString('\n'): the input up to and including the first
\* newline, or all of it when the input ends first (the error is dropped).
RECURSIVE ReadString(_)
ReadString(stdin) ==
    IF stdin = <<>> THEN <<>>
    ELSE IF stdin[1] = Newline THEN <<Newline>>
    ELSE <<stdin[1]>> \o ReadString(Tail(stdin))

\* strings.ToLower, on the letters the inputs use.
LowerOf(ch) ==
    CASE ch = "Y" -> "y"
      [] ch = "E" -> "e"
      [] ch = "S" -> "s"
      [] ch = "N" -> "n"
      [] ch = "O" -> "o"
      [] OTHER -> ch

ToLower(s) == [i \in 1..Len(s) |-> LowerOf(s[i])]

\* strings.TrimSpace: leading and trailing white space removed.
RECURSIVE TrimLeft(_)
TrimLeft(s) ==
    IF s # <<>> /\ s[1] \in WhiteSpace THEN TrimLeft(Tail(s)) ELSE s

RECURSIVE TrimRight(_)
TrimRight(s) ==
    IF s # <<>> /\ s[Len(s)] \in WhiteSpace THEN TrimRight(SubSeq(s, 1, Len(s) - 1)) ELSE s

TrimSpace(s) == TrimRight(TrimLeft(s))

\* input == "y" || input == "yes"
\* Faulty variant, to show what depends on the definition below: any line that starts with y.
ConfirmedByPrefix(input) == input # <<>> /\ input[1] = "y"
Confirmed(input) == input = <<"y">> \/ input = <<"y", "e", "s">>

\* Faulty variant, to show what depends on the definition below: a failed
\* sequence reset ends the command the way a failed DELETE does.
ClearResetFatal(stdin, deleteErr, resetErr) ==
    /\ cmd' = "clear"
    /\ args' = [stdin |-> stdin]
    /\ out' = NoOut
    /\ afterClear' = clearedRows
    /\ IF Confirmed(TrimSpace(ToLower(ReadString(stdin))))
       THEN IF deleteErr
            THEN /\ exit' = "fatal"
                 /\ stdout' = ""
                 /\ stderr' = "Error deleting expenses"
                 /\ UNCHANGED <<expenses, sqlite_sequence, clearedRows>>
            ELSE /\ expenses' = <<>>
                 /\ sqlite_sequence' = IF resetErr THEN sqlite_sequence
                                       ELSE ResetSequence(sqlite_sequence)
                 /\ exit' = IF resetErr THEN "fatal" ELSE "ok"
                 /\ stdout' = IF resetErr THEN "" ELSE "All expenses have been deleted."
                 /\ stderr' = IF resetErr THEN "Warning: Could not reset sequence counter"
                              ELSE ""
                 /\ clearedRows' = IF clearedRows >= 0 THEN clearedRows ELSE Len(expenses)
       ELSE /\ exit' = "ok"
            /\ stdout' = "Operation cancelled."
            /\ stderr' = ""
            /\ UNCHANGED <<expenses, sqlite_sequence, clearedRows>>

\* One invocation of "monke clear" with `stdin` on its standard input.
\* deleteErr / resetErr: the DELETE on expenses / on sqlite_sequence fails.
Clear(stdin, deleteErr, resetErr) ==
    /\ cmd' = "clear"
    /\ args' = [stdin |-> stdin]
    /\ out' = NoOut
    /\ afterClear' = clearedRows
    /\ IF Confirmed(TrimSpace(ToLower(ReadString(stdin))))
       THEN IF deleteErr
            THEN /\ exit' = "fatal"
                 /\ stdout' = ""
                 /\ stderr' = "Error deleting expenses"
                 /\ UNCHANGED <<expenses, sqlite_sequence, clearedRows>>
            ELSE /\ expenses' = <<>>
                 /\ sqlite_sequence' = IF resetErr THEN sqlite_sequence
                                       ELSE ResetSequence(sqlite_sequence)
                 /\ exit' = "ok"
                 /\ stdout' = "All expenses have been deleted."
                 /\ stderr' = IF resetErr THEN "Warning: Could not reset sequence counter"
                              ELSE ""
                 /\ clearedRows' = IF clearedRows >= 0 THEN clearedRows ELSE Len(expenses)
       ELSE /\ exit' = "ok"
            /\ stdout' = "Operation cancelled."
            /\ stderr' = ""
            /\ UNCHANGED <<expenses, sqlite_sequence, clearedRows>>

--------------------------------------------------------------------------
(* ls: aggregation *)

colorReset == 0

\* categoryColors: the 256-colour codes of the palette, in its order.
categoryColors == <<21, 51, 141, 43, 178, 130, 108, 97, 243, 65>>

\* totalLineWidth := 80
totalLineWidth == 80

\* The category names the model uses, listed in the order of Go's string
\* comparison (byte-wise: every upper-case letter is before every lower-case one).
ByteOrder ==
    <<"Bills", "Cafe", "Food", "Gym", "Health", "Pets", "Rent", "Travel",
      "Uncategorized", "books", "cinema", "zoo">>

ByteRank(name) == CHOOSE i \in 1..Len(ByteOrder) : ByteOrder[i] = name

\* sort.Strings on the elements of `names`.
SortStrings(names) == SelectSeq(ByteOrder, LAMBDA n : n \in names)

RECURSIVE InsertByDay(_, _)
InsertByDay(sorted, row) ==
    IF sorted = <<>> THEN <<row>>
    ELSE IF row.day < sorted[1].day THEN <<row>> \o sorted
    ELSE <<sorted[1]>> \o InsertByDay(Tail(sorted), row)

\* SELECT id, title, amount, day, category FROM expenses ORDER BY day ASC.
\* Rows of the same day are listed in rowid order, as SQLite's sorter yields them.
RECURSIVE QueryByDay(_)
QueryByDay(table) ==
    IF table = <<>> THEN <<>>
    ELSE InsertByDay(QueryByDay(SubSeq(table, 1, Len(table) - 1)), table[Len(table)])

\* displayCategory := "Uncategorized"; if category.Valid && category.String != "" {...}
\* (add always stores a string, so the column is never NULL).
DisplayCategory(category) == IF category # "" THEN category ELSE "Uncategorized"

\* categoryTotalsMap[displayCategory] += exp.Amount
\* Faulty variant, to show what depends on the definition below: = for +=.
AddToCategoryOverwrite(m, category, amount) ==
    LET d == DisplayCategory(category)
    IN  [c \in DOMAIN m \cup {d} |-> IF c = d THEN amount ELSE m[c]]
AddToCategory(m, category, amount) ==
    LET d == DisplayCategory(category)
    IN  [c \in DOMAIN m \cup {d} |->
            IF c = d THEN (IF c \in DOMAIN m THEN m[c] ELSE 0) + amount
            ELSE m[c]]

\* The loop over rows.Next(): the running totals after the rows of `rows`.
RECURSIVE Aggregate(_)
Aggregate(rows) ==
    IF rows = <<>> THEN [totalAmount |-> 0, categoryTotalsMap |-> <<>>]
    ELSE LET before == Aggregate(SubSeq(rows, 1, Len(rows) - 1))
             exp == rows[Len(rows)]
         IN  [totalAmount |-> before.totalAmount + exp.amount,
              categoryTotalsMap |->
                  AddToCategory(before.categoryTotalsMap, exp.category, exp.amount)]

\* categoryColorMap[catName] = categoryColors[i%len(categoryColors)], i the
\* position of catName in the sorted categoryNames (from 0 in the program).
\* Faulty variant, to show what depends on the definition below: a palette one colour short.
ColorIndexShort(i) == i % (Len(categoryColors) - 1)
ColorIndex(i) == i % Len(categoryColors)

CategoryColorMap(categoryNames) ==
    [c \in Range(categoryNames) |->
        LET i == CHOOSE k \in 1..Len(categoryNames) : categoryNames[k] = c
        IN  categoryColors[ColorIndex(i - 1) + 1]]

\* categoryColor, ok := categoryColorMap[cat]; if !ok { categoryColor = colorReset }
ColorOf(categoryColorMap, cat) ==
    IF cat \in DOMAIN categoryColorMap THEN categoryColorMap[cat] ELSE colorReset

--------------------------------------------------------------------------
(* ls: the table rows *)

\* The status colour of a row, from the expense's day and the calendar day.
\* Faulty variant, to show what depends on the definition below: near-future up to 5 days ahead.
RowStatusNearTo5(expenseDay, currentDay) ==
    IF expenseDay = currentDay THEN "today"
    ELSE IF expenseDay < currentDay THEN "past"
    ELSE IF expenseDay - currentDay <= 5 THEN "near-future"
    ELSE "unmarked"
RowStatus(expenseDay, currentDay) ==
    IF expenseDay = currentDay THEN "today"
    ELSE IF expenseDay < currentDay THEN "past"
    ELSE LET dayDiffFuture == expenseDay - currentDay
         IN  IF dayDiffFuture > 5 THEN "unmarked"
             ELSE IF dayDiffFuture > 0 /\ dayDiffFuture <= 3 THEN "near-future"
             ELSE IF dayDiffFuture > 3 /\ dayDiffFuture <= 5 THEN "mid-future"
             ELSE "unmarked"

\* One table.Append per expense.
TableRows(rows, currentDay, categoryColorMap) ==
    [i \in 1..Len(rows) |->
        [id |-> rows[i].id,
         title |-> rows[i].title,
         amount |-> rows[i].amount,
         day |-> rows[i].day,
         category |-> DisplayCategory(rows[i].category),
         color |-> ColorOf(categoryColorMap, DisplayCategory(rows[i].category)),
         status |-> RowStatus(rows[i].day, currentDay)]]

--------------------------------------------------------------------------
(* ls: the coloured line and the summary *)

\* The less function given to sort.Slice.
\* Faulty variant, to show what depends on the definition below: smallest total first.
LessAscending(m, a, b) == m[a] < m[b]
Less(m, a, b) == m[a] > m[b]

\* for cat := range categoryTotalsMap {...}; sort.Slice(categories, less).
\* Go iterates a map in an unspecified order and sort.Slice is not stable, so
\* the result is any listing of the keys in which no element that less puts
\* first comes later: every such listing is the result for some iteration order.
RECURSIVE SortSlice(_, _)
SortSlice(keys, m) ==
    IF keys = {} THEN {<<>>}
    ELSE UNION {{<<c>> \o rest : rest \in SortSlice(keys \ {c}, m)} :
                c \in {x \in keys : \A y \in keys : ~Less(m, y, x)}}

\* percentage := 0.0; if totalAmount > 0 { percentage = (categoryTotal / totalAmount) * 100 }
\* kept exact, as num/den with den > 0.
\* Faulty variant, to show what depends on the definition below: the guard is totalAmount != 0.
PercentageUnlessZero(categoryTotal, totalAmount) ==
    IF totalAmount > 0 THEN [num |-> categoryTotal * 100, den |-> totalAmount]
    ELSE IF totalAmount < 0 THEN [num |-> (0 - categoryTotal) * 100, den |-> 0 - totalAmount]
    ELSE [num |-> 0, den |-> 1]
Percentage(categoryTotal, totalAmount) ==
    IF totalAmount > 0 THEN [num |-> categoryTotal * 100, den |-> totalAmount]
    ELSE [num |-> 0, den |-> 1]

\* math.Round of num/den (den > 0): to the nearest integer, halves away from zero.
Round(num, den) ==
    IF num >= 0 THEN (2 * num + den) \div (2 * den)
    ELSE 0 - ((2 * (0 - num) + den) \div (2 * den))

\* min(int(math.Round(percentage/100.0*float64(totalLineWidth))), remainingWidth)
SegmentLength(percentage, remainingWidth) ==
    min(Round(percentage.num * totalLineWidth, 100 * percentage.den), remainingWidth)

\* The loop of generateColoredLine from position i on, remainingWidth columns
\* left.  Each iteration is recorded with the length it hands to
\* strings.Repeat; strings.Repeat panics on a negative count, which ends the
\* loop (and the process) at that iteration.
RECURSIVE ColoredLineFrom(_, _, _, _, _, _)
ColoredLineFrom(i, remainingWidth, categories, categoryTotalsMap, totalAmount, categoryColorMap) ==
    IF i > Len(categories) THEN <<>>
    ELSE LET cat == categories[i]
             percentage == Percentage(categoryTotalsMap[cat], totalAmount)
             segmentLength == SegmentLength(percentage, remainingWidth)
             left == remainingWidth - segmentLength
             entry == [cat |-> cat,
                       percentage |-> percentage,
                       color |-> ColorOf(categoryColorMap, cat),
                       remainingWidth |-> remainingWidth,
                       segmentLength |-> segmentLength,
                       panic |-> segmentLength < 0,
                       leftover |-> IF segmentLength >= 0 /\ i = Len(categories) /\ left > 0
                                    THEN left ELSE 0]
         IN  IF segmentLength < 0 THEN <<entry>>
             ELSE <<entry>> \o ColoredLineFrom(i + 1, left, categories, categoryTotalsMap,
                                               totalAmount, categoryColorMap)

generateColoredLine(categories, categoryTotalsMap, totalAmount, categoryColorMap) ==
    ColoredLineFrom(1, totalLineWidth, categories, categoryTotalsMap, totalAmount,
                    categoryColorMap)

\* The list renderExpenseTable hands to printSummaryTotals: the one it sorted
\* for the line.
\* Faulty variant, to show what depends on the definition below: the list sorted by name.
SummaryCategoriesByName(categories) == SortStrings(Range(categories))
SummaryCategories(categories) == categories

\* printSummaryTotals: one line per category of the list.
printSummaryTotals(totalAmount, categories, categoryTotalsMap, categoryColorMap) ==
    [i \in 1..Len(categories) |->
        [cat |-> categories[i],
         categoryTotal |-> categoryTotalsMap[categories[i]],
         percentage |-> Percentage(categoryTotalsMap[categories[i]], totalAmount),
         color |-> ColorOf(categoryColorMap, categories[i])]]

\* One invocation of "monke ls" on calendar day currentDay.
\* queryErr: db.Query returns an error.
Ls(currentDay, queryErr) ==
    /\ cmd' = "ls"
    /\ args' = [currentDay |-> currentDay]
    /\ afterClear' = clearedRows
    /\ UNCHANGED <<expenses, sqlite_sequence, clearedRows>>
    /\ IF queryErr
       THEN /\ exit' = "fatal"
            /\ stdout' = ""
            /\ stderr' = "Error querying expenses"
            /\ out' = NoOut
       ELSE IF Len(expenses) = 0
       THEN /\ exit' = "ok"
            /\ stdout' = "No expenses found."
            /\ stderr' = ""
            /\ out' = NoOut
       ELSE LET rows == QueryByDay(expenses)
                agg == Aggregate(rows)
                categoryNames == SortStrings(DOMAIN agg.categoryTotalsMap)
                categoryColorMap == CategoryColorMap(categoryNames)
            IN  \E categories \in SortSlice(DOMAIN agg.categoryTotalsMap, agg.categoryTotalsMap) :
                    LET line == generateColoredLine(categories, agg.categoryTotalsMap,
                                                    agg.totalAmount, categoryColorMap)
                        panicked == line[Len(line)].panic
                    IN  /\ exit' = IF panicked THEN "panic" ELSE "ok"
                        /\ stdout' = ""
                        /\ stderr' = IF panicked THEN "panic: strings: negative Repeat count"
                                     ELSE ""
                        /\ out' = [printed |-> TRUE,
                                   totalAmount |-> agg.totalAmount,
                                   categoryTotalsMap |-> agg.categoryTotalsMap,
                                   categoryNames |-> categoryNames,
                                   categoryColorMap |-> categoryColorMap,
                                   rows |-> TableRows(rows, currentDay, categoryColorMap),
                                   categories |-> categories,
                                   line |-> line,
                                   summary |-> IF panicked THEN <<>>
                                               ELSE printSummaryTotals(agg.totalAmount,
                                                        SummaryCategories(categories),
                                                        agg.categoryTotalsMap, categoryColorMap)]

--------------------------------------------------------------------------
(* Inputs and specifications *)

Amounts == {-1, 0, 3}
Categories == {"", "Food"}

\* The flags given to add: every accepted combination, and rejected ones.
AcceptedAdds == [title : {"rent"}, amount : Amounts, day : {1, 28}, category : Categories]
RejectedAdds ==
    [title : {""}, amount : {1}, day : {0, 1}, category : {""}]
    \cup [title : {"rent"}, amount : {1}, day : {-1, 0, 29}, category : {"Food"}]
AddInputs == AcceptedAdds \cup RejectedAdds

\* Fewer of them, for the runs in which statements fail.
FewAddInputs ==
    [title : {"rent"}, amount : {3}, day : {1, 29}, category : {"", "Food"}]
    \cup [title : {""}, amount : {3}, day : {1}, category : {""}]

StdinLines ==
    { <<>>,
      <<Newline>>,
      <<"y">>,
      <<"y", Newline>>,
      <<"Y", "E", "S", Newline>>,
      <<" ", "Y", "e", "s", "\t", "\r", Newline>>,
      <<"n", Newline>>,
      <<"n", "o", Newline, "y", Newline>>,
      <<"y", "e", Newline>>,
      <<"y", "e", "s", "s", Newline>>,
      <<"y", " ", "e", "s", Newline>> }

CurrentDays == {1, 15, 31}

\* The state in which `table` is what earlier invocations have stored.
InitWith(table) ==
    /\ expenses = table
    /\ sqlite_sequence = Len(table)
    /\ cmd = "none"
    /\ args = NoArgs
    /\ exit = "ok"
    /\ stdout = ""
    /\ stderr = ""
    /\ out = NoOut
    /\ clearedRows = -1
    /\ afterClear = -1

\* The state after initDB on a machine without a store: CREATE TABLE IF NOT
\* EXISTS leaves an empty table.
Init == InitWith(<<>>)

\* The program on a store whose statements all succeed.
Next ==
    \/ \E in \in AddInputs : Add(in.title, in.amount, in.day, in.category, FALSE, FALSE)
    \/ \E line \in StdinLines : Clear(line, FALSE, FALSE)
    \/ \E d \in CurrentDays : Ls(d, FALSE)

Spec == Init /\ [][Next]_vars

\* The program on a store any statement of which may fail.
NextFaults ==
    \/ \E in \in FewAddInputs, prepareErr, execErr \in BOOLEAN :
           Add(in.title, in.amount, in.day, in.category, prepareErr, execErr)
    \/ \E line \in StdinLines, deleteErr, resetErr \in BOOLEAN :
           Clear(line, deleteErr, resetErr)
    \/ \E queryErr \in BOOLEAN : Ls(15, queryErr)

SpecFaults == Init /\ [][NextFaults]_vars

\* ls as a function of the stored rows: the table is any that add can have
\* stored (rowids 1..n, accepted titles and days), and ls is run on it.
MaxListed == 3
ListedAmounts == {-1, 0, 1, 3}
ListedCategories == {"", "Food", "books"}

TableOf(n, amount, day, category) ==
    [i \in 1..n |-> Expense(i, "rent", amount[i], day[i], category[i])]

InitLs ==
    \E n \in 1..MaxListed :
        \E amount \in [1..n -> ListedAmounts], category \in [1..n -> ListedCategories] :
            InitWith(TableOf(n, amount, [i \in 1..n |-> IF i % 2 = 1 THEN 20 ELSE 10], category))

NextLs == \E d \in {15} : Ls(d, FALSE)

SpecLs == InitLs /\ [][NextLs]_vars

\* ls on tables of 9 to 12 categories, one row each: more categories than the
\* palette has colours.  The amounts rise or fall along the names.
MinPaletteCategories == 9

StoredName(name) == IF name = "Uncategorized" THEN "" ELSE name

InitPalette ==
    \E names \in SUBSET Range(ByteOrder), falling \in BOOLEAN :
        /\ Cardinality(names) >= MinPaletteCategories
        /\ LET listed == SortStrings(names)
               n == Len(listed)
           IN  InitWith(TableOf(n,
                   [i \in 1..n |-> IF falling THEN n + 1 - i ELSE i],
                   [i \in 1..n |-> 1 + (i % 28)],
                   [i \in 1..n |-> StoredName(listed[i])]))

SpecPalette == InitPalette /\ [][NextLs]_vars

\* ls on a single row of every accepted day, on every calendar day.
InitStatus ==
    \E d \in 1..28 : InitWith(TableOf(1, <<1>>, <<d>>, <<"Food">>))

NextStatus == \E currentDay \in 1..31 : Ls(currentDay, FALSE)

SpecStatus == InitStatus /\ [][NextStatus]_vars

--------------------------------------------------------------------------
(* Operators the properties are stated with *)

\* The lines on which clear goes ahead: "y" or "yes" in any case, between
\* white space, ended by a newline or by the end of the input.
AffirmativeLines ==
    { <<"y">>,
      <<"y", Newline>>,
      <<"Y", "E", "S", Newline>>,
      <<" ", "Y", "e", "s", "\t", "\r", Newline>> }

\* The category a stored row counts under.
ShownCategory(row) == IF row.category = "" THEN "Uncategorized" ELSE row.category

\* The sum of f over the finite set S.
RECURSIVE SumOver(_, _)
SumOver(S, f) ==
    IF S = {} THEN 0
    ELSE LET x == CHOOSE y \in S : TRUE
         IN  f[x] + SumOver(S \ {x}, f)

\* ls ran on a table with rows and printed its table.
LsListed == cmd = "ls" /\ out.printed

\* ls ran to its end.
LsCompleted == LsListed /\ exit = "ok"

\* The columns the coloured line holds: every segment and the leftover.
LineWidth == SumSeq([i \in 1..Len(out.line) |-> out.line[i].segmentLength + out.line[i].leftover])

--------------------------------------------------------------------------
(* C1 *)

\* C1: whenever ls runs on a non-empty table, it completes and the segment
\* lengths of the coloured line (each category's clipped rounded segment and
\* the leftover given to the last category) add up to totalLineWidth.
C1_SegmentsFillTheLine ==
    (cmd = "ls" /\ expenses # <<>>) =>
        /\ exit = "ok"
        /\ Len(out.line) = Len(out.categories)
        /\ LineWidth = totalLineWidth

--------------------------------------------------------------------------
(* C2 *)

\* C2: the keys of the category totals are the categories of the rows, an
\* empty category counting as "Uncategorized"; each total is the sum of the
\* amounts of the rows of that category; and the totals add up to the grand
\* total, which is the sum of all amounts.
C2_CategoryTotalsAddUp ==
    LsListed =>
        LET m == out.categoryTotalsMap
            rowsOf(c) == {i \in 1..Len(expenses) : ShownCategory(expenses[i]) = c}
            amountOf == [i \in 1..Len(expenses) |-> expenses[i].amount]
        IN  /\ DOMAIN m = {ShownCategory(expenses[i]) : i \in 1..Len(expenses)}
            /\ \A c \in DOMAIN m : m[c] = SumOver(rowsOf(c), amountOf)
            /\ SumOver(DOMAIN m, m) = out.totalAmount
            /\ out.totalAmount = SumOver(1..Len(expenses), amountOf)

\* ls has aggregated rows with and without a category, two of one category.
C2_Witness ==
    /\ LsListed
    /\ Len(expenses) = 3
    /\ \E i, j, k \in 1..3 :
          /\ i # j
          /\ expenses[i].category = "" /\ expenses[i].amount # 0
          /\ expenses[j].category = "" /\ expenses[j].amount # 0
          /\ expenses[k].category = "Food" /\ expenses[k].amount # 0

--------------------------------------------------------------------------
(* C3 *)

\* C3: once clear has read an affirmative line the table is empty, and the
\* first add that stores a row after it stores it under rowid 1.
C3_ClearRestartsRowids ==
    /\ (cmd = "clear" /\ args.stdin \in AffirmativeLines) =>
           /\ expenses = <<>>
           /\ exit = "ok"
    /\ (cmd = "add" /\ exit = "ok" /\ afterClear >= 0) =>
           /\ Len(expenses) = 1
           /\ expenses[1].id = 1

\* An add has stored the first row after a clear that deleted two.
C3_Witness ==
    /\ cmd = "add"
    /\ exit = "ok"
    /\ afterClear = 2
    /\ expenses[1].id = 1

--------------------------------------------------------------------------
(* C4 *)

\* C4: a clear whose line is not affirmative leaves the rows and the rowid
\* counter as they were and ends without an error.
C4_DeclinedClearChangesNothing ==
    [][(cmd' = "clear" /\ args'.stdin \notin AffirmativeLines) =>
          /\ expenses' = expenses
          /\ sqlite_sequence' = sqlite_sequence
          /\ exit' = "ok"
          /\ stderr' = ""
          /\ stdout' = "Operation cancelled."]_vars

\* A clear has been declined, by a line that starts like "yes", on a table with rows.
C4_Witness ==
    /\ cmd = "clear"
    /\ args.stdin = <<"y", "e", "s", "s", Newline>>
    /\ stdout = "Operation cancelled."
    /\ Len(expenses) = 2

--------------------------------------------------------------------------
(* C5 *)

\* C5: an add with a non-empty title and a day in 1..28 appends exactly one
\* row, holding its flags; any other add ends fatally and leaves the table
\* and the rowid counter alone; and every stored row has a non-empty title
\* and a day in 1..28.
C5_AddStoresValidRowsOnly ==
    [][/\ cmd' = "add" =>
            IF args'.title # "" /\ args'.day >= 1 /\ args'.day <= 28
            THEN /\ exit' = "ok"
                 /\ Len(expenses') = Len(expenses) + 1
                 /\ SubSeq(expenses', 1, Len(expenses)) = expenses
                 /\ LET row == expenses'[Len(expenses')]
                    IN  /\ row.title = args'.title
                        /\ row.amount = args'.amount
                        /\ row.day = args'.day
                        /\ row.category = args'.category
            ELSE /\ exit' = "fatal"
                 /\ expenses' = expenses
                 /\ sqlite_sequence' = sqlite_sequence
       /\ \A i \in 1..Len(expenses') :
            /\ expenses'[i].title # ""
            /\ expenses'[i].day >= 1
            /\ expenses'[i].day <= 28]_vars

\* Rows of day 1 and of day 28 are stored, and an add of day 29 has been refused.
C5_Witness ==
    /\ cmd = "add"
    /\ exit = "fatal"
    /\ args.title # ""
    /\ args.day = 29
    /\ \E i, j \in 1..Len(expenses) : expenses[i].day = 1 /\ expenses[j].day = 28
--------------------------------------------------------------------------
(* C6 *)

\* The category names in alphabetical order whatever the case of the letters,
\* "Uncategorized" after all others.
AlphabeticalOrder ==
    <<"Bills", "books", "Cafe", "cinema", "Food", "Gym", "Health", "Pets", "Rent",
      "Travel", "zoo", "Uncategorized">>

SummaryNames == [i \in 1..Len(out.summary) |-> out.summary[i].cat]

--------------------------------------------------------------------------
(* C7 *)

\* C7: the list given to generateColoredLine holds every category once, and of
\* two categories next to each other in it the first has the total that is
\* larger or the same.
C7_LineOrderNonIncreasing ==
    LsListed =>
        /\ Len(out.categories) = Cardinality(DOMAIN out.categoryTotalsMap)
        /\ Range(out.categories) = DOMAIN out.categoryTotalsMap
        /\ \A i \in 1..(Len(out.categories) - 1) :
              out.categoryTotalsMap[out.categories[i]]
                  >= out.categoryTotalsMap[out.categories[i + 1]]

\* Three categories are listed: two of the same total, the third of a smaller one.
C7_Witness ==
    /\ LsListed
    /\ Len(out.categories) = 3
    /\ out.categoryTotalsMap[out.categories[1]] = out.categoryTotalsMap[out.categories[2]]
    /\ out.categoryTotalsMap[out.categories[2]] > out.categoryTotalsMap[out.categories[3]]

--------------------------------------------------------------------------
(* C8 *)

\* Every percentage ls used: one per iteration of the line, one per summary line.
PercentagesUsed ==
    {[cat |-> out.line[i].cat, percentage |-> out.line[i].percentage] : i \in 1..Len(out.line)}
    \cup {[cat |-> out.summary[i].cat, percentage |-> out.summary[i].percentage] :
             i \in 1..Len(out.summary)}

\* percentage (num/den, den > 0) is 100 * categoryTotal / totalAmount.
IsShareOf(percentage, categoryTotal, totalAmount) ==
    /\ percentage.den > 0
    /\ percentage.num * totalAmount = 100 * categoryTotal * percentage.den

--------------------------------------------------------------------------
(* C9 *)

\* C9: a category's colour is the palette's colour at (i mod 10), i the number
\* of category names of the table that are before it in string order; with at
\* most 10 categories no two share a colour; and the rows, the line and the
\* summary show a category in that colour.
C9_ColorByNameOrder ==
    LsCompleted =>
        LET names == DOMAIN out.categoryTotalsMap
            before(c) == Cardinality({d \in names : ByteRank(d) < ByteRank(c)})
            colorOf(c) == out.categoryColorMap[c]
        IN  /\ DOMAIN out.categoryColorMap = names
            /\ \A c \in names : colorOf(c) = categoryColors[(before(c) % 10) + 1]
            /\ Cardinality(names) <= 10 =>
                  \A c, d \in names : c # d => colorOf(c) # colorOf(d)
            /\ \A i \in 1..Len(out.rows) : out.rows[i].color = colorOf(out.rows[i].category)
            /\ \A i \in 1..Len(out.line) : out.line[i].color = colorOf(out.line[i].cat)
            /\ \A i \in 1..Len(out.summary) : out.summary[i].color = colorOf(out.summary[i].cat)

\* ls has listed 12 categories, the amounts falling along the names: the
\* eleventh name has the colour of the first.
C9_Witness ==
    /\ LsCompleted
    /\ Len(out.categoryNames) = 12
    /\ out.categories[1] = "zoo"
    /\ out.categoryColorMap["Bills"] = out.categoryColorMap["cinema"]
    /\ out.summary[1].color = out.categoryColorMap["zoo"]

--------------------------------------------------------------------------
(* C10 *)

\* C10: the status of a row is past when its day is before the calendar day,
\* today when it is that day, near-future when it is 1 to 3 days ahead,
\* mid-future when 4 or 5 days ahead and unmarked when further ahead.
C10_StatusByDistance ==
    LsListed =>
        \A i \in 1..Len(out.rows) :
            LET ahead == out.rows[i].day - args.currentDay
            IN  /\ out.rows[i].day \in 1..28
                /\ args.currentDay \in 1..31
                /\ out.rows[i].status \in {"past", "today", "near-future", "mid-future", "unmarked"}
                /\ out.rows[i].status = "past" <=> ahead < 0
                /\ out.rows[i].status = "today" <=> ahead = 0
                /\ out.rows[i].status = "near-future" <=> ahead \in 1..3
                /\ out.rows[i].status = "mid-future" <=> ahead \in 4..5
                /\ out.rows[i].status = "unmarked" <=> ahead > 5

\* A row five days ahead of the calendar day is listed as mid-future.
C10_Witness ==
    /\ LsListed
    /\ out.rows[1].day = args.currentDay + 5
    /\ out.rows[1].status = "mid-future"

--------------------------------------------------------------------------
(* C11 *)

RowidsOf(table) == {table[i].id : i \in 1..Len(table)}

\* C11: whatever adds and clears have run, no two rows of the table have the
\* same id, and an add that stores a row stores it under an id larger than
\* every id the table held just before.
C11_RowidsUniqueAndGrowing ==
    [][/\ Cardinality(RowidsOf(expenses')) = Len(expenses')
       /\ (cmd' = "add" /\ exit' = "ok") =>
             /\ Len(expenses') = Len(expenses) + 1
             /\ SubSeq(expenses', 1, Len(expenses)) = expenses
             /\ \A id \in RowidsOf(expenses) : expenses'[Len(expenses')].id > id]_vars

\* Two rows were stored and cleared, the sequence reset failed, and two more
\* adds have stored rows 3 and 4.
C11_Witness ==
    /\ cmd = "add"
    /\ exit = "ok"
    /\ Len(expenses) = 2
    /\ expenses[1].id = 3
    /\ expenses[2].id = 4

--------------------------------------------------------------------------
(* C12 *)

\* C12: when a confirmed clear deletes the rows and the reset of the sequence
\* then fails, the command logs a warning and nothing else, says that all
\* expenses have been deleted and ends normally, and the table is empty; when
\* the DELETE itself fails, the command is fatal, the rows stay, and the
\* sequence is left as it was whether or not a reset would have succeeded.
C12_ResetFailureIsAWarning ==
    [][(cmd' = "clear" /\ args'.stdin \in AffirmativeLines) =>
          /\ Clear(args'.stdin, FALSE, TRUE) =>
                /\ exit' = "ok"
                /\ stderr' = "Warning: Could not reset sequence counter"
                /\ stdout' = "All expenses have been deleted."
                /\ expenses' = <<>>
          /\ \A resetErr \in BOOLEAN :
                Clear(args'.stdin, TRUE, resetErr) =>
                    /\ exit' = "fatal"
                    /\ stderr' = "Error deleting expenses"
                    /\ stdout' = ""
                    /\ expenses' = expenses
                    /\ sqlite_sequence' = sqlite_sequence
          /\ exit' = "ok" => expenses' = <<>>
          /\ exit' # "ok" => expenses' = expenses /\ sqlite_sequence' = sqlite_sequence]_vars

\* A confirmed clear has deleted two rows and ended normally with the warning:
\* the table is empty and the sequence still remembers rowid 2.
C12_Witness ==
    /\ cmd = "clear"
    /\ args.stdin \in AffirmativeLines
    /\ exit = "ok"
    /\ stderr = "Warning: Could not reset sequence counter"
    /\ clearedRows = 2
    /\ expenses = <<>>
    /\ sqlite_sequence = 2

--------------------------------------------------------------------------
(* C13 *)

\* C13: whatever adds and clears have run, every row of the table has an
\* amount that is 0 or more.
C13_AmountsNonNegative ==
    \A i \in 1..Len(expenses) : expenses[i].amount >= 0

--------------------------------------------------------------------------
(* C14 *)

\* The columns each category gets in the coloured line of the output o: its
\* segment and, for the last category, the leftover.
SegmentsOf(o) ==
    {[cat |-> o.line[i].cat,
      segmentLength |-> o.line[i].segmentLength,
      leftover |-> o.line[i].leftover] : i \in 1..Len(o.line)}

NamesOf(summary) == [i \in 1..Len(summary) |-> summary[i].cat]

\* C14: two runs of ls, one after the other on the same table, give the same
\* order of the categories in the coloured line and in the summary, and every
\* category the same segment length, also when categories have equal totals.
C14_SameOrderOnEveryRun ==
    [][(LsListed /\ cmd' = "ls" /\ out'.printed /\ expenses' = expenses) =>
          /\ out'.categories = out.categories
          /\ NamesOf(out'.summary) = NamesOf(out.summary)
          /\ SegmentsOf(out') = SegmentsOf(out)]_vars

--------------------------------------------------------------------------
(* C15 *)

\* C15: at every iteration of generateColoredLine, on any table add has
\* stored, the remaining width is 0 or more and the length handed to
\* strings.Repeat is between 0 and the remaining width, so that ls does not
\* panic.
C15_SegmentsWithinRemainingWidth ==
    LsListed =>
        /\ exit # "panic"
        /\ \A i \in 1..Len(out.line) :
              /\ out.line[i].remainingWidth >= 0
              /\ out.line[i].segmentLength >= 0
              /\ out.line[i].segmentLength <= out.line[i].remainingWidth

====
